---- MODULE Spec2Model ----
(***************************************************************************)
(* Model of the conversational session engine of AttarVoice.               *)
(*                                                                         *)
(*   widget/src/widget.js                      class TravelVoiceWidget     *)
(*   frontend/src/components/ChatInterface.js  class ChatInterface         *)
(*                                                                         *)
(* Spec     is the TravelVoiceWidget state machine (voice call life cycle, *)
(*          message log, text send with its delayed completion).           *)
(* ChatSpec is the ChatInterface state machine (text send awaiting the     *)
(*          search collaborator, message log persisted in localStorage).   *)
(*                                                                         *)
(* RouterSpec and ClassifierSpec apply generateAIResponse and               *)
(*          getErrorMessage on their own to arguments drawn from bounded   *)
(*          sets.                                                          *)
(*                                                                         *)
(* Texts are sequences of word tokens; String.includes is modelled on the  *)
(* tokens (Substrings gives the keywords a token contains).                *)
(***************************************************************************)
EXTENDS Integers, Sequences, FiniteSets, TLC

\* ------------------------------------------------------------------ bounds
MaxLog == 4         \* longest message log the user actions extend
MaxSends == 2       \* text sends per behaviour
MaxRuns == 2        \* SDK run() invocations per behaviour

\* --------------------------------------------------------------- constants
SDK == "vapiSDK"
NULL == "null"
\* readings of toLocaleTimeString; the time field is only ever displayed
Times == {"09:41 AM"}

\* ------------------------------------------------------------------- texts
Last(s) == s[Len(s)]
Front(s) == SubSeq(s, 1, Len(s) - 1)

\* keywords contained (as substrings) in one word
Substrings(tok) ==
  CASE tok = "insecure"   -> {"secure"}
    [] tok = "assistants" -> {"assistant"}
    [] tok = "flights"    -> {"flights", "flight"}
    [] tok = "booking"    -> {"booking", "book"}
    [] tok = "this"       -> {"this", "hi"}
    [] OTHER              -> {tok}

\* String.prototype.includes
includes(text, kw) == \E i \in DOMAIN text : kw \in Substrings(text[i])

IsSpace(tok) == tok = " "

RECURSIVE trimStart(_)
trimStart(s) == IF s # <<>> /\ IsSpace(Head(s)) THEN trimStart(Tail(s)) ELSE s

RECURSIVE trimEnd(_)
trimEnd(s) == IF s # <<>> /\ IsSpace(Last(s)) THEN trimEnd(Front(s)) ELSE s

\* String.prototype.trim
trim(s) == trimEnd(trimStart(s))

\* ------------------------------------------------------ widget: fixed texts
TypingIndicator == <<"...">>
AiReply == <<"I received your message. How can I help you with your travel plans?">>
WelcomeReady == <<"Hi! I'm your Travel.ai assistant.">>
WelcomeLoading == <<"Hi! Voice service is loading. Please wait a moment...">>
CallStarted == <<"Voice call started - speak now!">>
CallEnded == <<"Call ended. How else can I help you?">>
NotReadyText == <<"Voice service is still loading. Please wait a moment and try again.">>
UnavailableText == <<"Voice service unavailable. Please refresh the page.">>
SdkNotLoaded == <<"Vapi SDK not properly loaded">>
SubstringTypeError == <<"this.config.vapiPublicKey.substring is not a function">>
MicDeniedText == <<"Microphone permission denied. Please allow microphone access and try again.">>
HttpsText == <<"Voice calls require HTTPS. Please use a secure connection.">>
NotConfiguredText == <<"Voice assistant not configured. Please check your settings.">>
StartFailedText == <<"Failed to start voice call. Please try again.">>

\* words of the failure texts the SDK throws
ErrTokens == {"permission", "Permission", "secure", "HTTPS", "https", "assistant"}

\* error.message of a thrown error; <<>> is a missing or empty message
ErrTexts ==
  {<<>>} \cup {<<a>> : a \in ErrTokens} \cup {<<a, b>> : a, b \in ErrTokens}

\* raw values of the text input
Inputs == {<<" ">>, <<" ", "hello", " ">>, <<"...">>}

VARIABLES
  pc,                \* position of the constructor / waitForVapiAndInit
  sdk,               \* window.vapiSDK: "ok", "norun" (no run function), "undefined"
  publicKeyIsString, \* typeof config.vapiPublicKey === 'string'
  initError,         \* message of the error initVapi rejected with
  events,            \* CustomEvents dispatched on window
  isOpen, isListening, vapiClient, vapiReady, messages,
  panelBody,         \* what #widgetPanelBody shows: "initial", "listening", "messages"
  inputValue,        \* #widgetTextInput.value
  timers,            \* pending setTimeout(.., 1000) callbacks, oldest first
  sdkRuns,           \* invocations of vapiSDK.run
  sdkActive,         \* the SDK holds a running call
  nextCall,          \* number of text sends so far
  owner,             \* owner[i]: the text send that pushed messages[i], 0 for none
  pushed             \* array length returned by each messages.push since the last clear

\* ChatInterface
VARIABLES
  chatMessages,      \* this.messages
  isLoading,
  localStorage,      \* the item 'chatMessages': JSON text, <<>> when absent
  chatInput,         \* #chatInput.value
  calls,             \* calls[i]: the i-th sendMessage, its message and where it waits
  chatOwner          \* chatOwner[i]: the sendMessage that pushed chatMessages[i], 0 for none

widgetVars == <<pc, sdk, publicKeyIsString, initError, events, isOpen, isListening,
                vapiClient, vapiReady, messages, panelBody, inputValue, timers,
                sdkRuns, sdkActive, nextCall, owner, pushed>>

chatVars == <<chatMessages, isLoading, localStorage, chatInput, calls, chatOwner>>

\* the two functions applied on their own to drawn arguments
VARIABLES
  generated,         \* the last two calls of generateAIResponse: arguments and result
  classified         \* the last two calls of getErrorMessage: error.message and result

fnVars == <<generated, classified>>

vars == <<widgetVars, chatVars, fnVars>>

\* --------------------------------------------------- widget: pure helpers
Message(text, type, time) == [text |-> text, type |-> type, time |-> time]

\* mutant of getErrorMessage: the assistant rule is tested first
getErrorMessageAssistantFirst(msg) ==
  IF msg # <<>>
  THEN IF includes(msg, "assistant") THEN NotConfiguredText
       ELSE IF includes(msg, "permission") \/ includes(msg, "Permission") THEN MicDeniedText
       ELSE IF includes(msg, "secure") \/ includes(msg, "HTTPS") THEN HttpsText
       ELSE <<"Error:">> \o msg
  ELSE StartFailedText

\* getErrorMessage(error), error.message = msg
getErrorMessage(msg) ==
  IF msg # <<>>
  THEN IF includes(msg, "permission") \/ includes(msg, "Permission") THEN MicDeniedText
       ELSE IF includes(msg, "secure") \/ includes(msg, "HTTPS") THEN HttpsText
       ELSE IF includes(msg, "assistant") THEN NotConfiguredText
       ELSE <<"Error:">> \o msg
  ELSE StartFailedText

\* the log after addMessage(text, type): this.messages.push({ text, type, time })
addMessage(log, text, type, time) == Append(log, Message(text, type, time))

\* the panel after addMessage: showMessages() when the panel is open
panelAfterAdd(open, body) == IF open THEN "messages" ELSE body

\* showError(message): addMessage(`WARNING ${message}`, 'system')
\* getErrorMessage(error) for the errors vapiSDK.run() throws
ClassifiedTexts == {getErrorMessage(msg) : msg \in ErrTexts}

\* mutant of showError: the message is added a second time when the list is redrawn
showErrorTwice(log, message, time) ==
  addMessage(addMessage(log, <<"(!)">> \o message, "system", time),
             <<"(!)">> \o message, "system", time)

showError(log, message, time) == addMessage(log, <<"(!)">> \o message, "system", time)

\* room left in the explored log for n more messages (a pending completion of
\* a text send is never held back)
Room(n) == Len(messages) + n <= MaxLog

\* ----------------------------------------------------------- widget: Init
\* constructor, lines 17-23, before this.init()
WidgetInit(sdks, keys) ==
  /\ pc = "constructed"
  /\ sdk \in sdks
  /\ publicKeyIsString \in keys
  /\ initError = <<>>
  /\ events = <<>>
  /\ isOpen = FALSE
  /\ isListening = FALSE
  /\ vapiClient = NULL
  /\ vapiReady = FALSE
  /\ messages = <<>>
  /\ panelBody = "initial"
  /\ inputValue = <<>>
  /\ timers = <<>>
  /\ sdkRuns = 0
  /\ sdkActive = FALSE
  /\ nextCall = 0
  /\ owner = <<>>
  /\ pushed = <<>>

\* ------------------------------------------------- widget: initialisation
\* mutant of initVapi: vapiReady is not set on success
initVapiNotReady ==
  IF sdk = "undefined"
  THEN [vapiClient |-> vapiClient, vapiReady |-> FALSE, error |-> <<"Vapi SDK not loaded">>]
  ELSE IF publicKeyIsString
       THEN [vapiClient |-> SDK, vapiReady |-> FALSE, error |-> <<>>]
       ELSE [vapiClient |-> SDK, vapiReady |-> FALSE, error |-> SubstringTypeError]

\* initVapi(), run to its end (it has no await): the fields it leaves and the
\* message of the error it rejects with (<<>> when it resolves)
initVapi ==
  IF sdk = "undefined"
  THEN [vapiClient |-> vapiClient, vapiReady |-> FALSE, error |-> <<"Vapi SDK not loaded">>]
  ELSE IF publicKeyIsString
       THEN [vapiClient |-> SDK, vapiReady |-> TRUE, error |-> <<>>]
       ELSE [vapiClient |-> SDK, vapiReady |-> FALSE, error |-> SubstringTypeError]

\* mutant of initFailed: the failure text is classified by getErrorMessage
initFailedClassified(message, time) ==
  /\ events' = Append(events, [type |-> "vapiError", detail |-> message])
  /\ messages' = showError(messages, getErrorMessage(message), time)
  /\ owner' = Append(owner, 0)
  /\ pushed' = Append(pushed, Len(messages'))
  /\ panelBody' = panelAfterAdd(isOpen, panelBody)
  /\ pc' = "done"

\* the catch block of waitForVapiAndInit
initFailed(message, time) ==
  /\ events' = Append(events, [type |-> "vapiError", detail |-> message])
  /\ messages' = showError(messages, UnavailableText, time)
  /\ owner' = Append(owner, 0)
  /\ pushed' = Append(pushed, Len(messages'))
  /\ panelBody' = panelAfterAdd(isOpen, panelBody)
  /\ pc' = "done"

\* init(): createWidget, setupEventListeners, and waitForVapiAndInit up to its
\* await (or to its end when the SDK check fails)
init ==
  /\ pc = "constructed"
  /\ IF sdk = "ok"
     THEN /\ vapiClient' = initVapi.vapiClient
          /\ vapiReady' = initVapi.vapiReady
          /\ initError' = initVapi.error
          /\ pc' = "awaitInitVapi"
          /\ UNCHANGED <<events, messages, owner, pushed, panelBody>>
     ELSE /\ \E t \in Times : initFailed(SdkNotLoaded, t)
          /\ UNCHANGED <<vapiClient, vapiReady, initError>>
  /\ UNCHANGED <<sdk, publicKeyIsString, isOpen, isListening, inputValue,
                 timers, sdkRuns, sdkActive, nextCall>>
  /\ UNCHANGED <<chatVars, fnVars>>

\* dispatchEvent(new CustomEvent('vapiReady'))
notifyReady == Append(events, [type |-> "vapiReady", detail |-> <<>>])

\* waitForVapiAndInit resumed after `await this.initVapi()`
initResume ==
  /\ pc = "awaitInitVapi"
  /\ IF initError = <<>>
     THEN /\ events' = notifyReady
          /\ pc' = "done"
          /\ UNCHANGED <<messages, owner, pushed, panelBody>>
     ELSE \E t \in Times : initFailed(initError, t)
  /\ UNCHANGED <<sdk, publicKeyIsString, initError, isOpen, isListening,
                 vapiClient, vapiReady, inputValue, timers, sdkRuns, sdkActive,
                 nextCall>>
  /\ UNCHANGED <<chatVars, fnVars>>

\* --------------------------------------------------- widget: user actions
\* togglePanel()
togglePanel ==
  /\ pc = "done"
  /\ isOpen' = ~isOpen
  /\ IF isOpen' /\ Len(messages) = 0
     THEN /\ Room(1)
          /\ \E t \in Times :
               messages' = addMessage(messages,
                             IF vapiReady THEN WelcomeReady ELSE WelcomeLoading, "ai", t)
          /\ owner' = Append(owner, 0)
          /\ pushed' = Append(pushed, Len(messages'))
          /\ panelBody' = panelAfterAdd(isOpen', panelBody)
     ELSE UNCHANGED <<messages, owner, pushed, panelBody>>
  /\ UNCHANGED <<pc, sdk, publicKeyIsString, initError, events, isListening,
                 vapiClient, vapiReady, inputValue, timers, sdkRuns, sdkActive,
                 nextCall>>
  /\ UNCHANGED <<chatVars, fnVars>>

\* mutant of notReady: && for ||
notReadyBoth == ~vapiReady /\ vapiClient = NULL

\* the guard of startVoiceCall
notReady == ~vapiReady \/ vapiClient = NULL

\* startVoiceCall() while the SDK is not ready: showError and return
startNotReady ==
  /\ pc = "done"
  /\ notReady
  /\ Room(1)
  /\ \E t \in Times : messages' = showError(messages, NotReadyText, t)
  /\ owner' = Append(owner, 0)
  /\ pushed' = Append(pushed, Len(messages'))
  /\ panelBody' = panelAfterAdd(isOpen, panelBody)
  /\ UNCHANGED <<pc, sdk, publicKeyIsString, initError, events, isOpen,
                 isListening, vapiClient, vapiReady, inputValue, timers,
                 sdkRuns, sdkActive, nextCall>>
  /\ UNCHANGED <<chatVars, fnVars>>

\* mutant of startRuns: isListening is left to onCallStart(), which nothing calls
startRunsNoFlag ==
  /\ pc = "done"
  /\ ~notReady
  /\ Room(1)
  /\ sdkRuns < MaxRuns
  /\ sdkRuns' = sdkRuns + 1
  /\ sdkActive' = TRUE
  /\ \E t \in Times : messages' = addMessage(messages, CallStarted, "system", t)
  /\ owner' = Append(owner, 0)
  /\ pushed' = Append(pushed, Len(messages'))
  /\ panelBody' = panelAfterAdd(isOpen, "listening")
  /\ UNCHANGED <<pc, sdk, publicKeyIsString, initError, events, isOpen, isListening,
                 vapiClient, vapiReady, inputValue, timers, nextCall>>
  /\ UNCHANGED <<chatVars, fnVars>>

\* startVoiceCall() with the SDK ready; window.vapiSDK.run() returns
startRuns ==
  /\ pc = "done"
  /\ ~notReady
  /\ Room(1)
  /\ sdkRuns < MaxRuns
  /\ sdkRuns' = sdkRuns + 1
  /\ sdkActive' = TRUE
  /\ isListening' = TRUE
  /\ \E t \in Times : messages' = addMessage(messages, CallStarted, "system", t)
  /\ owner' = Append(owner, 0)
  /\ pushed' = Append(pushed, Len(messages'))
  /\ panelBody' = panelAfterAdd(isOpen, "listening")
  /\ UNCHANGED <<pc, sdk, publicKeyIsString, initError, events, isOpen,
                 vapiClient, vapiReady, inputValue, timers, nextCall>>
  /\ UNCHANGED <<chatVars, fnVars>>

\* mutant of startThrows: the catch block does not reset isListening
startThrowsStaysListening ==
  /\ pc = "done"
  /\ ~notReady
  /\ Room(1)
  /\ sdkRuns < MaxRuns
  /\ sdkRuns' = sdkRuns + 1
  /\ \E text \in ClassifiedTexts, t \in Times :
       messages' = showError(messages, text, t)
  /\ owner' = Append(owner, 0)
  /\ pushed' = Append(pushed, Len(messages'))
  /\ isListening' = TRUE
  /\ panelBody' = "messages"
  /\ UNCHANGED <<pc, sdk, publicKeyIsString, initError, events, isOpen,
                 vapiClient, vapiReady, inputValue, timers, sdkActive, nextCall>>
  /\ UNCHANGED <<chatVars, fnVars>>

\* startVoiceCall() with the SDK ready; window.vapiSDK.run() throws
startThrows ==
  /\ pc = "done"
  /\ ~notReady
  /\ Room(1)
  /\ sdkRuns < MaxRuns
  /\ sdkRuns' = sdkRuns + 1
  /\ \E text \in ClassifiedTexts, t \in Times :
       messages' = showError(messages, text, t)
  /\ owner' = Append(owner, 0)
  /\ pushed' = Append(pushed, Len(messages'))
  /\ isListening' = FALSE
  /\ panelBody' = "messages"
  /\ UNCHANGED <<pc, sdk, publicKeyIsString, initError, events, isOpen,
                 vapiClient, vapiReady, inputValue, timers, sdkActive, nextCall>>
  /\ UNCHANGED <<chatVars, fnVars>>

\* startVoiceCall()
startVoiceCall == startNotReady \/ startRuns \/ startThrows

\* onCallEnd() after the try block of endVoiceCall, the SDK call stopped or not
endCall(stopped) ==
  /\ sdkActive' = IF stopped THEN FALSE ELSE sdkActive
  /\ isListening' = FALSE
  /\ panelBody' = "messages"
  /\ \E t \in Times : messages' = addMessage(messages, CallEnded, "system", t)
  /\ owner' = Append(owner, 0)
  /\ pushed' = Append(pushed, Len(messages'))
  /\ UNCHANGED <<pc, sdk, publicKeyIsString, initError, events, isOpen,
                 vapiClient, vapiReady, inputValue, timers, sdkRuns, nextCall>>
  /\ UNCHANGED <<chatVars, fnVars>>

\* mutant of endStops: vapiSDK.stop() is not called
endStopsNotCalled ==
  /\ pc = "done"
  /\ isListening
  /\ Room(1)
  /\ endCall(FALSE)

\* endVoiceCall() while listening; window.vapiSDK.stop() returns
endStops ==
  /\ pc = "done"
  /\ isListening
  /\ Room(1)
  /\ endCall(TRUE)

\* endVoiceCall() while listening; window.vapiSDK.stop() throws: the catch
\* block logs to the console and onCallEnd() runs
endStopThrows ==
  /\ pc = "done"
  /\ isListening
  /\ Room(1)
  /\ endCall(FALSE)

\* endVoiceCall() while listening; window.vapiSDK has no stop
endNoStop ==
  /\ pc = "done"
  /\ isListening
  /\ Room(1)
  /\ endCall(FALSE)

\* mutant of endNotListening: onCallEnd() runs without the isListening check
endUnguarded ==
  /\ pc = "done"
  /\ ~isListening
  /\ Room(1)
  /\ panelBody' = "messages"
  /\ \E t \in Times : messages' = addMessage(messages, CallEnded, "system", t)
  /\ owner' = Append(owner, 0)
  /\ pushed' = Append(pushed, Len(messages'))
  /\ UNCHANGED <<pc, sdk, publicKeyIsString, initError, events, isOpen, isListening,
                 vapiClient, vapiReady, inputValue, timers, sdkRuns, sdkActive,
                 nextCall>>
  /\ UNCHANGED <<chatVars, fnVars>>

\* endVoiceCall() while not listening: nothing is done
endNotListening ==
  /\ pc = "done"
  /\ ~isListening
  /\ UNCHANGED vars

\* endVoiceCall()
endVoiceCall == endStops \/ endStopThrows \/ endNoStop \/ endNotListening

\* the SDK emits an error event and may drop its call; the widget keeps no
\* reference to the call run() returns and registers no listener, so the text
\* of the event is read by nobody
sdkErrorEvent ==
  /\ pc = "done"
  /\ \E dropped \in BOOLEAN :
       sdkActive' = IF dropped THEN FALSE ELSE sdkActive
  /\ UNCHANGED <<pc, sdk, publicKeyIsString, initError, events, isOpen, isListening,
                 vapiClient, vapiReady, messages, panelBody, inputValue, timers,
                 sdkRuns, nextCall, owner, pushed>>
  /\ UNCHANGED <<chatVars, fnVars>>

\* clearMessages()
clearMessages ==
  /\ pc = "done"
  /\ messages' = <<>>
  /\ owner' = <<>>
  /\ pushed' = <<>>
  /\ panelBody' = "initial"
  /\ UNCHANGED <<pc, sdk, publicKeyIsString, initError, events, isOpen,
                 isListening, vapiClient, vapiReady, inputValue, timers,
                 sdkRuns, sdkActive, nextCall>>
  /\ UNCHANGED <<chatVars, fnVars>>

\* the user edits #widgetTextInput
typeText ==
  /\ pc = "done"
  /\ \E v \in Inputs : inputValue' = v
  /\ UNCHANGED <<pc, sdk, publicKeyIsString, initError, events, isOpen,
                 isListening, vapiClient, vapiReady, messages, panelBody, timers,
                 sdkRuns, sdkActive, nextCall, owner, pushed>>
  /\ UNCHANGED <<chatVars, fnVars>>

\* sendTextMessage(), up to setTimeout
sendTextMessage ==
  /\ pc = "done"
  /\ IF trim(inputValue) = <<>>
     THEN UNCHANGED <<inputValue, messages, owner, pushed, panelBody, timers, nextCall>>
     ELSE /\ nextCall < MaxSends
          /\ Room(2)
          /\ nextCall' = nextCall + 1
          /\ inputValue' = <<>>
          /\ \E t1 \in Times, t2 \in Times :
               messages' = addMessage(addMessage(messages, trim(inputValue), "user", t1),
                                      TypingIndicator, "ai", t2)
          /\ owner' = owner \o <<nextCall', nextCall'>>
          /\ pushed' = pushed \o <<Len(messages') - 1, Len(messages')>>
          /\ panelBody' = panelAfterAdd(isOpen, panelBody)
          /\ timers' = Append(timers, nextCall')
  /\ UNCHANGED <<pc, sdk, publicKeyIsString, initError, events, isOpen,
                 isListening, vapiClient, vapiReady, sdkRuns, sdkActive>>
  /\ UNCHANGED <<chatVars, fnVars>>

\* mutant of removeTyping: every message reading '...' is filtered out
removeAllTyping(log) == SelectSeq(log, LAMBDA m : m.text # TypingIndicator)

\* the log after the typing indicator is removed: pop() when the last message
\* reads '...'
removeTyping(log) == IF Last(log).text = TypingIndicator THEN Front(log) ELSE log

\* the setTimeout callback of sendTextMessage; on an empty list
\* this.messages[-1].text throws a TypeError and the callback ends there
timerFires ==
  /\ pc = "done"
  /\ timers # <<>>
  /\ timers' = Tail(timers)
  /\ IF Len(messages) = 0
     THEN UNCHANGED <<messages, owner, pushed, panelBody>>
     ELSE LET log == removeTyping(messages)
          IN  /\ \E t \in Times : messages' = addMessage(log, AiReply, "ai", t)
              /\ owner' = Append(SubSeq(owner, 1, Len(log)), Head(timers))
              /\ pushed' = Append(pushed, Len(messages'))
              /\ panelBody' = panelAfterAdd(isOpen, panelBody)
  /\ UNCHANGED <<pc, sdk, publicKeyIsString, initError, events, isOpen,
                 isListening, vapiClient, vapiReady, inputValue, sdkRuns,
                 sdkActive, nextCall>>
  /\ UNCHANGED <<chatVars, fnVars>>

\* ------------------------------------------------ ChatInterface: helpers
ChatMessage(content, type, time) == [content |-> content, type |-> type, time |-> time]

ApologyText == <<"Sorry, I encountered an error. Please try again.">>
GreetingText == <<"Hello! Welcome to Travel.ai.">>
HotelText == <<"I can help you find hotels!">>
BookingText == <<"To make a booking, just tell me your preferences">>
FallbackText == <<"I understand you're looking for travel options.">>

\* mutant of toLowerCase: the text is left as typed
toLowerCaseNot(text) == text

\* String.prototype.toLowerCase, word by word
toLowerCase(text) ==
  [i \in DOMAIN text |->
     CASE text[i] = "Flight" -> "flight"
       [] text[i] = "HELLO"  -> "hello"
       [] text[i] = "Hotel"  -> "hotel"
       [] OTHER              -> text[i]]

\* mutant of FlightText: the last flight of the list is shown
FlightTextLast(flights) ==
  LET flight == flights[Len(flights)]
  IN  <<"I found", ToString(Len(flights)), "flights for you! Top option:",
        flight.airline, flight.flight_number, "Departure:", flight.departure_time,
        "Price:", flight.price, "Would you like to book this flight?">>

\* the reply for a flight list: count, then airline, number, departure time and
\* price of data.outbound_flights[0]
FlightText(flights) ==
  LET flight == flights[1]
  IN  <<"I found", ToString(Len(flights)), "flights for you! Top option:",
        flight.airline, flight.flight_number, "Departure:", flight.departure_time,
        "Price:", flight.price, "Would you like to book this flight?">>

\* response bodies: text that is no JSON, null, or an object with or without
\* outbound_flights
Flight1 == [airline |-> "Emirates", flight_number |-> "EK565",
            departure_time |-> "10:15", price |-> "18000"]
Flight2 == [airline |-> "IndiGo", flight_number |-> "6E1485",
            departure_time |-> "21:40", price |-> "15500"]
Body(kind, flights) == [kind |-> kind, outbound_flights |-> flights]
Bodies == {Body("malformed", <<>>), Body("null", <<>>), Body("noFlights", <<>>),
           Body("object", <<>>), Body("object", <<Flight1>>),
           Body("object", <<Flight2, Flight1>>)}

\* mutant of generateAIResponse: the hotel rule is tested before the greeting rule
generateAIResponseHotelFirst(userMessage, data) ==
  LET lowerMessage == toLowerCase(userMessage)
      flightRule == includes(lowerMessage, "flight") \/ includes(lowerMessage, "book")
  IN  IF flightRule /\ data.kind = "null"
      THEN [threw |-> TRUE, text |-> <<>>]
      ELSE [threw |-> FALSE,
            text |->
              IF flightRule /\ data.kind = "object" /\ Len(data.outbound_flights) > 0
              THEN FlightText(data.outbound_flights)
              ELSE IF includes(lowerMessage, "hotel")
              THEN HotelText
              ELSE IF includes(lowerMessage, "hello") \/ includes(lowerMessage, "hi")
              THEN GreetingText
              ELSE IF includes(lowerMessage, "booking") \/ includes(lowerMessage, "reserve")
              THEN BookingText
              ELSE FallbackText]

\* mutant of generateAIResponse: a greeting is given once, later ones get the
\* fallback text
generateAIResponseGreetOnce(userMessage, data) ==
  LET lowerMessage == toLowerCase(userMessage)
      flightRule == includes(lowerMessage, "flight") \/ includes(lowerMessage, "book")
  IN  IF flightRule /\ data.kind = "null"
      THEN [threw |-> TRUE, text |-> <<>>]
      ELSE [threw |-> FALSE,
            text |->
              IF flightRule /\ data.kind = "object" /\ Len(data.outbound_flights) > 0
              THEN FlightText(data.outbound_flights)
              ELSE IF (includes(lowerMessage, "hello") \/ includes(lowerMessage, "hi"))
                      /\ generated = <<>>
              THEN GreetingText
              ELSE IF includes(lowerMessage, "hotel")
              THEN HotelText
              ELSE IF includes(lowerMessage, "booking") \/ includes(lowerMessage, "reserve")
              THEN BookingText
              ELSE FallbackText]

\* generateAIResponse(userMessage, data): [threw |-> TRUE] when reading
\* data.outbound_flights of a null body throws, else the reply text
generateAIResponse(userMessage, data) ==
  LET lowerMessage == toLowerCase(userMessage)
      flightRule == includes(lowerMessage, "flight") \/ includes(lowerMessage, "book")
  IN  IF flightRule /\ data.kind = "null"
      THEN [threw |-> TRUE, text |-> <<>>]
      ELSE [threw |-> FALSE,
            text |->
              IF flightRule /\ data.kind = "object" /\ Len(data.outbound_flights) > 0
              THEN FlightText(data.outbound_flights)
              ELSE IF includes(lowerMessage, "hello") \/ includes(lowerMessage, "hi")
              THEN GreetingText
              ELSE IF includes(lowerMessage, "hotel")
              THEN HotelText
              ELSE IF includes(lowerMessage, "booking") \/ includes(lowerMessage, "reserve")
              THEN BookingText
              ELSE FallbackText]

\* ------------------------------------------------- ChatInterface: JSON text
\* JSON text is a sequence of tokens: brackets, braces, keys, commas and, between
\* two quote tokens, the words of a string with quote and backslash escaped
Quote == "\""
Backslash == "\\"

escape(tok) ==
  IF tok = Quote THEN "\\\"" ELSE IF tok = Backslash THEN "\\\\" ELSE tok

\* mutant of unescape: escape sequences are left as they are
unescapeNothing(tok) == tok

unescape(tok) ==
  IF tok = "\\\"" THEN Quote ELSE IF tok = "\\\\" THEN Backslash ELSE tok

stringifyString(text) ==
  <<Quote>> \o [i \in DOMAIN text |-> escape(text[i])] \o <<Quote>>

stringifyMessage(m) ==
  <<"{", "content:">> \o stringifyString(m.content)
    \o <<",", "type:">> \o stringifyString(<<m.type>>)
    \o <<",", "time:">> \o stringifyString(<<m.time>>) \o <<"}">>

RECURSIVE stringifyItems(_)
stringifyItems(list) ==
  IF list = <<>> THEN <<>>
  ELSE stringifyMessage(Head(list))
         \o (IF Len(list) > 1 THEN <<",">> ELSE <<>>) \o stringifyItems(Tail(list))

\* JSON.stringify(this.messages)
stringify(list) == <<"[">> \o stringifyItems(list) \o <<"]">>

\* the string whose opening quote is json[at]: its words and the index after
\* its closing quote
RECURSIVE parseWords(_, _, _)
parseWords(json, at, acc) ==
  IF json[at] = Quote THEN [value |-> acc, next |-> at + 1]
  ELSE parseWords(json, at + 1, Append(acc, unescape(json[at])))

parseString(json, at) == parseWords(json, at + 1, <<>>)

\* the object whose opening brace is json[at]
parseMessage(json, at) ==
  LET content == parseString(json, at + 2)
      type == parseString(json, content.next + 2)
      time == parseString(json, type.next + 2)
  IN  [value |-> ChatMessage(content.value, type.value[1], time.value[1]),
       next |-> time.next + 1]

RECURSIVE parseItems(_, _, _)
parseItems(json, at, acc) ==
  IF json[at] = "]" THEN acc
  ELSE IF json[at] = "," THEN parseItems(json, at + 1, acc)
  ELSE LET m == parseMessage(json, at)
       IN  parseItems(json, m.next, Append(acc, m.value))

\* JSON.parse(saved)
parse(json) == parseItems(json, 2, <<>>)

\* saveMessages(): the item written by localStorage.setItem
saveMessages(list) == stringify(list)

\* loadMessages(): saved ? JSON.parse(saved) : []
loadMessages(saved) == IF saved # <<>> THEN parse(saved) ELSE <<>>

\* ----------------------------------------------------- ChatInterface: Init
\* raw values of #chatInput
ChatInputs == {<<" ">>, <<"Flight", "to", "Dubai">>, <<" ", "\"", "hello", "\\">>}

\* what an earlier page load left under 'chatMessages'
EarlierStores ==
  {<<>>, stringify(<<>>),
   stringify(<<ChatMessage(<<"hello">>, "user", "09:40 AM"),
               ChatMessage(GreetingText, "ai", "09:40 AM")>>)}

\* constructor and init(): loadMessages, setupEventListeners
ChatInit ==
  /\ localStorage \in EarlierStores
  /\ chatMessages = loadMessages(localStorage)
  /\ isLoading = FALSE
  /\ chatInput = <<>>
  /\ calls = <<>>
  /\ chatOwner = [i \in DOMAIN chatMessages |-> 0]

ChatRoom(n) == Len(chatMessages) + n <= MaxLog

\* ---------------------------------------------------- ChatInterface: steps
\* the user edits #chatInput
chatType ==
  /\ \E v \in ChatInputs : chatInput' = v
  /\ UNCHANGED <<chatMessages, isLoading, localStorage, calls, chatOwner>>
  /\ UNCHANGED <<widgetVars, fnVars>>

\* mutant of sendMessage: the request is sent without showing the typing indicator
sendMessageNotLoading ==
  /\ IF trim(chatInput) = <<>>
     THEN UNCHANGED chatVars
     ELSE /\ Len(calls) < MaxSends
          /\ ChatRoom(1)
          /\ \E t \in Times :
               chatMessages' = Append(chatMessages, ChatMessage(trim(chatInput), "user", t))
          /\ localStorage' = saveMessages(chatMessages')
          /\ chatOwner' = Append(chatOwner, Len(calls) + 1)
          /\ chatInput' = <<>>
          /\ isLoading' = isLoading
          /\ calls' = Append(calls, [message |-> trim(chatInput), at |-> "fetch"])
  /\ UNCHANGED <<widgetVars, fnVars>>

\* sendMessage() up to `await fetch(...)`; render() rebuilds the input field
sendMessage ==
  /\ IF trim(chatInput) = <<>>
     THEN UNCHANGED chatVars
     ELSE /\ Len(calls) < MaxSends
          /\ ChatRoom(1)
          /\ \E t \in Times :
               chatMessages' = Append(chatMessages, ChatMessage(trim(chatInput), "user", t))
          /\ localStorage' = saveMessages(chatMessages')
          /\ chatOwner' = Append(chatOwner, Len(calls) + 1)
          /\ chatInput' = <<>>
          /\ isLoading' = TRUE
          /\ calls' = Append(calls, [message |-> trim(chatInput), at |-> "fetch"])
  /\ UNCHANGED <<widgetVars, fnVars>>

\* mutant of sendFailed: the apology is pushed and the list is not saved
sendFailedNotSaved(i, time) ==
  /\ chatMessages' = Append(chatMessages, ChatMessage(ApologyText, "ai", time))
  /\ chatOwner' = Append(chatOwner, i)
  /\ isLoading' = FALSE
  /\ chatInput' = <<>>
  /\ calls' = [calls EXCEPT ![i].at = "done"]
  /\ UNCHANGED localStorage

\* the catch and finally blocks of sendMessage for call i
sendFailed(i, time) ==
  /\ chatMessages' = Append(chatMessages, ChatMessage(ApologyText, "ai", time))
  /\ localStorage' = saveMessages(chatMessages')
  /\ chatOwner' = Append(chatOwner, i)
  /\ isLoading' = FALSE
  /\ chatInput' = <<>>
  /\ calls' = [calls EXCEPT ![i].at = "done"]

\* fetch() of call i settles: rejected, answered with a non-OK status, or
\* answered OK (sendMessage goes on to `await response.json()`)
fetchAnswered(i, outcome) ==
  /\ calls[i].at = "fetch"
  /\ IF outcome = "ok"
     THEN /\ calls' = [calls EXCEPT ![i].at = "json"]
          /\ UNCHANGED <<chatMessages, isLoading, localStorage, chatInput, chatOwner>>
     ELSE \E t \in Times : sendFailed(i, t)

fetchSettles ==
  /\ \E i \in DOMAIN calls, outcome \in {"rejected", "notOk", "ok"} :
       fetchAnswered(i, outcome)
  /\ UNCHANGED <<widgetVars, fnVars>>

\* mutant of jsonAnswered: a reply is added although response.json() rejected
\* or generateAIResponse threw
jsonAnsweredNoCatch(i, data) ==
  /\ calls[i].at = "json"
  /\ \E t \in Times :
       /\ chatMessages' = Append(chatMessages, ChatMessage(FallbackText, "ai", t))
       /\ localStorage' = saveMessages(chatMessages')
       /\ chatOwner' = Append(chatOwner, i)
       /\ isLoading' = FALSE
       /\ chatInput' = <<>>
       /\ calls' = [calls EXCEPT ![i].at = "done"]

\* response.json() of call i settles: rejected (malformed body) or a body, for
\* which the reply is generated and added; then the finally block
jsonAnswered(i, data) ==
  /\ calls[i].at = "json"
  /\ \E t \in Times :
       LET aiResponse == generateAIResponse(calls[i].message, data)
       IN  IF data.kind = "malformed" \/ aiResponse.threw
           THEN sendFailed(i, t)
           ELSE /\ chatMessages' = Append(chatMessages, ChatMessage(aiResponse.text, "ai", t))
                /\ localStorage' = saveMessages(chatMessages')
                /\ chatOwner' = Append(chatOwner, i)
                /\ isLoading' = FALSE
                /\ chatInput' = <<>>
                /\ calls' = [calls EXCEPT ![i].at = "done"]

jsonSettles ==
  /\ \E i \in DOMAIN calls, data \in Bodies : jsonAnswered(i, data)
  /\ UNCHANGED <<widgetVars, fnVars>>

\* mutant of clearChatAnswered: the emptied list is not saved
clearChatNotSaved(confirmed) ==
  IF confirmed
  THEN /\ chatMessages' = <<>>
       /\ chatOwner' = <<>>
       /\ chatInput' = <<>>
       /\ UNCHANGED <<isLoading, calls, localStorage>>
  ELSE UNCHANGED chatVars

\* clearChat(): confirm() is answered OK or Cancel
clearChatAnswered(confirmed) ==
  IF confirmed
  THEN /\ chatMessages' = <<>>
       /\ localStorage' = saveMessages(chatMessages')
       /\ chatOwner' = <<>>
       /\ chatInput' = <<>>
       /\ UNCHANGED <<isLoading, calls>>
  ELSE UNCHANGED chatVars

clearChat ==
  /\ \E confirmed \in BOOLEAN : clearChatAnswered(confirmed)
  /\ UNCHANGED <<widgetVars, fnVars>>

\* ------------------------------------- generateAIResponse applied on its own
\* words of the utterances
UtterTokens == {"Flight", "flights", "booking", "HELLO", "this", "Hotel", "reserve", "asdf"}

Utterances == {<<a>> : a \in UtterTokens} \cup {<<a, b>> : a, b \in UtterTokens}

\* the bodies response.json() resolves with
ParsedBodies == {b \in Bodies : b.kind # "malformed"}

\* one call of generateAIResponse: its arguments and what it gave
applied(userMessage, body) ==
  LET aiResponse == generateAIResponse(userMessage, body)
  IN  [userMessage |-> userMessage, data |-> body,
       threw |-> aiResponse.threw, text |-> aiResponse.text]

\* generateAIResponse is called for an utterance and a body
generate ==
  /\ \E userMessage \in Utterances, body \in ParsedBodies :
       generated' = <<applied(userMessage, body)>>
  /\ UNCHANGED <<widgetVars, chatVars, classified>>

\* generateAIResponse is called again for the same utterance, the collaborator
\* having answered with this or another body
generateAgain ==
  /\ Len(generated) = 1
  /\ \E body \in ParsedBodies :
       generated' = Append(generated, applied(generated[1].userMessage, body))
  /\ UNCHANGED <<widgetVars, chatVars, classified>>

\* ---------------------------------------- getErrorMessage applied on its own
\* words of failure texts
RawTokens == ErrTokens \cup {"insecure", "assistants", "timeout"}

RawTexts == {<<>>} \cup {<<a>> : a \in RawTokens} \cup {<<a, b>> : a, b \in RawTokens}

\* getErrorMessage is called for an error with the message msg
explain ==
  /\ \E msg \in RawTexts :
       classified' = <<[message |-> msg, text |-> getErrorMessage(msg)]>>
  /\ UNCHANGED <<widgetVars, chatVars, generated>>

\* getErrorMessage is called again for an error with the same message
explainAgain ==
  /\ Len(classified) = 1
  /\ classified' = Append(classified, [message |-> classified[1].message,
                                       text |-> getErrorMessage(classified[1].message)])
  /\ UNCHANGED <<widgetVars, chatVars, generated>>

\* --------------------------------------------------------- specifications
\* the ChatInterface is not constructed
ChatParked ==
  /\ chatMessages = <<>>
  /\ isLoading = FALSE
  /\ localStorage = <<>>
  /\ chatInput = <<>>
  /\ calls = <<>>
  /\ chatOwner = <<>>

\* neither function has been applied on its own
FnParked == generated = <<>> /\ classified = <<>>

Init == WidgetInit({"ok", "norun", "undefined"}, BOOLEAN) /\ ChatParked /\ FnParked

Next ==
  \/ init
  \/ initResume
  \/ togglePanel
  \/ startVoiceCall
  \/ endVoiceCall
  \/ sdkErrorEvent
  \/ clearMessages
  \/ typeText
  \/ sendTextMessage
  \/ timerFires

Spec == Init /\ [][Next]_vars

ChatSpecInit == ChatInit /\ WidgetInit({"ok"}, {TRUE}) /\ FnParked

ChatNext ==
  \/ chatType
  \/ sendMessage
  \/ fetchSettles
  \/ jsonSettles
  \/ clearChat

ChatSpec == ChatSpecInit /\ [][ChatNext]_vars

\* the continuation of sendMessage runs once the response is there; nothing
\* makes fetch() itself settle: sendMessage sets no timeout and passes no
\* AbortSignal
ChatLiveSpec == ChatSpecInit /\ [][ChatNext]_vars /\ WF_vars(jsonSettles)

RouterInit == WidgetInit({"ok"}, {TRUE}) /\ ChatParked /\ FnParked

RouterNext == generate \/ generateAgain

RouterSpec == RouterInit /\ [][RouterNext]_vars

ClassifierNext == explain \/ explainAgain

ClassifierSpec == RouterInit /\ [][ClassifierNext]_vars

TypeOK ==
  /\ pc \in {"constructed", "awaitInitVapi", "done"}
  /\ Len(owner) = Len(messages)
  /\ Len(messages) <= MaxLog + MaxSends
  /\ Len(chatOwner) = Len(chatMessages)

\* ------------------------------------------------------------------ claims
\* the typing indicator pushed by sendTextMessage
IsTyping(m) == m.type = "ai" /\ m.text = TypingIndicator

\* the session state the flags of the widget stand for
SessionState ==
  IF pc = "constructed" THEN "IDLE"
  ELSE IF pc = "awaitInitVapi" THEN "INITIALIZING"
  ELSE IF ~vapiReady THEN "ERROR"
  ELSE IF isListening THEN "LISTENING"
  ELSE "READY"

\* C1: at most one text send is in flight: never two pending completions.
C1_OneInFlight == Len(timers) <= 1

\* C2: the log follows invocation order: every message of an earlier
\* sendMessage call precedes every message of a later call.
C2_InvocationOrder ==
  \A p \in DOMAIN chatMessages, q \in DOMAIN chatMessages :
    (chatOwner[p] # 0 /\ chatOwner[q] # 0 /\ chatOwner[p] < chatOwner[q]) => p < q

\* C3: the log holds at most one typing-indicator (ephemeral) message.
C3_OneEphemeral ==
  Cardinality({i \in DOMAIN messages : IsTyping(messages[i])}) <= 1

\* C4: a typing indicator that is in the log is its last message.
C4_EphemeralLast ==
  \A i \in DOMAIN messages : IsTyping(messages[i]) => i = Len(messages)

\* C5 as stated: the positions handed out by push since the last clear are
\* strictly increasing, none is handed out twice.
C5_StrictlyIncreasing ==
  \A i \in DOMAIN pushed, j \in DOMAIN pushed : i < j => pushed[i] < pushed[j]

\* C5 amended: every push takes the position right after the current last
\* message, so positions never decrease and never skip, the log is never longer
\* than the pushes made, and a position is handed out again only right after
\* the completion of a text send popped the indicator that held it.
C5_NextPosition ==
  /\ \A i \in 1..(Len(pushed) - 1) : pushed[i + 1] \in {pushed[i], pushed[i] + 1}
  /\ pushed # <<>> => pushed[1] = 1 /\ Last(pushed) = Len(messages)
  /\ pushed = <<>> => messages = <<>>

C5_Witness ==
  /\ \E i \in 1..(Len(pushed) - 1) : pushed[i + 1] = pushed[i]
  /\ Len(messages) >= 3

\* C6: what loadMessages reads back from what saveMessages writes is the
\* message list without its ephemeral entries, in the same order, and the
\* stored list never holds an ephemeral entry, a pending reply or not.
IsEphemeral(m) == m.type = "ai" /\ m.content = TypingIndicator

C6_RoundTrip ==
  /\ loadMessages(saveMessages(chatMessages))
       = SelectSeq(chatMessages, LAMBDA m : ~IsEphemeral(m))
  /\ \A i \in DOMAIN loadMessages(localStorage) :
       ~IsEphemeral(loadMessages(localStorage)[i])

C6_Witness ==
  /\ isLoading
  /\ Len(chatMessages) >= 3
  /\ \E i \in DOMAIN chatMessages : includes(chatMessages[i].content, Quote)
  /\ loadMessages(localStorage) = chatMessages

\* an SDK failure: a failed initialisation or a throwing vapiSDK.run()
SdkFailure == init \/ initResume \/ startThrows

\* C7: every change of the session state is an edge of the graph
\* IDLE -> INITIALIZING -> READY -> LISTENING, LISTENING -> READY by
\* endVoiceCall, any state -> ERROR on an SDK failure, ERROR left only by
\* startVoiceCall; a ready session never goes back to INITIALIZING.
C7_StateGraph ==
  [][SessionState' # SessionState =>
       \/ SessionState = "IDLE" /\ SessionState' = "INITIALIZING"
       \/ SessionState = "INITIALIZING" /\ SessionState' = "READY"
       \/ SessionState = "READY" /\ SessionState' = "LISTENING" /\ startVoiceCall
       \/ SessionState = "LISTENING" /\ SessionState' = "READY" /\ endVoiceCall
       \/ SessionState' = "ERROR" /\ SdkFailure
       \/ SessionState = "ERROR" /\ startVoiceCall]_vars

ReadyEvents == Cardinality({i \in DOMAIN events : events[i].type = "vapiReady"})
ErrorEvents == Cardinality({i \in DOMAIN events : events[i].type = "vapiError"})

\* C8: after a successful handshake the widget is ready (vapiReady with the
\* client set) and vapiReady has been dispatched exactly once; the event is
\* never dispatched before the widget is ready, nor twice.
C8_ReadyNotifiedOnce ==
  /\ ReadyEvents <= 1
  /\ ReadyEvents = 1 => vapiReady /\ vapiClient = SDK /\ pc = "done"
  /\ (pc = "done" /\ sdk = "ok" /\ publicKeyIsString)
       => ReadyEvents = 1 /\ ErrorEvents = 0 /\ vapiReady /\ vapiClient = SDK

C8_Witness == pc = "done" /\ ReadyEvents = 1 /\ isListening

\* the step in which waitForVapiAndInit ends in its catch block
InitFails == pc # "done" /\ pc' = "done" /\ Last(events').type = "vapiError"

C10_StartNotReady ==
  [][(pc = "done" /\ (~vapiReady \/ vapiClient = NULL) /\ startVoiceCall) =>
       /\ isListening' = isListening /\ vapiReady' = vapiReady
       /\ vapiClient' = vapiClient /\ SessionState' = SessionState
       /\ sdkRuns' = sdkRuns /\ sdkActive' = sdkActive
       /\ \E t \in Times :
            messages' = Append(messages, Message(<<"(!)">> \o NotReadyText, "system", t))]_vars

C10_Witness ==
  /\ pc = "done" /\ ~vapiReady /\ ~isListening /\ sdkRuns = 0
  /\ messages # <<>>
  /\ Last(messages) \in {Message(<<"(!)">> \o NotReadyText, "system", t) : t \in Times}
  /\ vapiClient = SDK

\* ---- C11 ----

\* the message list is on screen with its "Talk Again" button
TalkAgainShown == isOpen /\ panelBody = "messages"

\* C11: startVoiceCall() invoked through "Talk Again" while a call is already
\* listening does not run the SDK a second time and changes neither the
\* session state nor the message list.
C11_StartWhileListening ==
  [][(pc = "done" /\ isListening /\ vapiReady /\ vapiClient # NULL
        /\ TalkAgainShown /\ startVoiceCall) =>
       /\ sdkRuns' = sdkRuns
       /\ SessionState' = SessionState
       /\ messages' = messages]_vars

\* ---- C12, C13 ----

\* the ErrorClassifier kind of a text getErrorMessage() returns
shownKind(text) ==
  IF text = MicDeniedText THEN "PermissionDenied"
  ELSE IF text = HttpsText THEN "InsecureTransport"
  ELSE IF text = NotConfiguredText THEN "AssistantMisconfigured"
  ELSE "Unknown"

IsErrorMessage(m) == m.type = "system" /\ m.text # <<>> /\ m.text[1] = "(!)"

\* the widget has no lastErrorKind field: the error it currently reports is
\* the one its latest message shows, if that message came from showError()
lastErrorKind ==
  IF messages # <<>> /\ IsErrorMessage(Last(messages))
  THEN shownKind(Tail(Last(messages).text))
  ELSE "none"

\* C12: startVoiceCall() from READY with vapiSDK.run() returning runs the SDK
\* once, moves the session to LISTENING and leaves no error reported.
C12_StartFromReady ==
  [][(pc = "done" /\ vapiReady /\ vapiClient # NULL /\ ~isListening /\ startRuns) =>
       /\ isListening'
       /\ SessionState' = "LISTENING"
       /\ lastErrorKind' = "none"
       /\ sdkRuns' = sdkRuns + 1
       /\ sdkActive']_vars

\* a call started right after a start that failed with a classified error
C12_Witness ==
  /\ SessionState = "LISTENING"
  /\ Len(messages) >= 2
  /\ IsErrorMessage(messages[Len(messages) - 1])
  /\ shownKind(Tail(messages[Len(messages) - 1].text)) = "PermissionDenied"
  /\ Last(messages).text = CallStarted
  /\ lastErrorKind = "none"

\* a step of startVoiceCall() in which vapiSDK.run() was called and threw: the
\* SDK was run and the call is not announced
StartRejected ==
  /\ pc = "done" /\ vapiReady /\ vapiClient # NULL
  /\ sdkRuns' = sdkRuns + 1
  /\ (messages' = messages \/ Last(messages').text # CallStarted)

\* C13 (as stated): when vapiSDK.run() throws, the session goes to ERROR, is
\* not left LISTENING, and the classified reason is the error reported in the
\* message list.
C13_RejectedStartToError ==
  [][StartRejected =>
       /\ SessionState' = "ERROR"
       /\ ~isListening'
       /\ IsErrorMessage(Last(messages'))
       /\ Tail(Last(messages').text) \in ClassifiedTexts]_vars

\* C13 (amended): when vapiSDK.run() throws, the session is not left LISTENING
\* but returns to READY, and the classified reason is appended as one system
\* message, which is the error the widget then reports.
C13_RejectedStartToReady ==
  [][StartRejected =>
       /\ SessionState' = "READY"
       /\ ~isListening'
       /\ Len(messages') = Len(messages) + 1
       /\ SubSeq(messages', 1, Len(messages)) = messages
       /\ IsErrorMessage(Last(messages'))
       /\ Tail(Last(messages').text) \in ClassifiedTexts
       /\ lastErrorKind' # "none"]_vars

\* a rejected start has reported an HTTPS error and the session is READY
C13_Witness ==
  /\ SessionState = "READY"
  /\ sdkRuns >= 1
  /\ ~sdkActive
  /\ lastErrorKind = "InsecureTransport"

\* ---- C14, C15 ----

IsCallEnded(m) == m.type = "system" /\ m.text = CallEnded

NoTwoCallEnds ==
  \A i \in 1..(Len(messages) - 1) :
    ~(IsCallEnded(messages[i]) /\ IsCallEnded(messages[i + 1]))

\* C15: endVoiceCall() in any state other than LISTENING changes nothing: not
\* the session state, not the message list, not the SDK; so two calls in a row
\* leave one call-end message, never two.
C15_EndNotListening ==
  [][/\ (pc = "done" /\ ~isListening /\ endVoiceCall) =>
          /\ SessionState' = SessionState
          /\ messages' = messages
          /\ sdkActive' = sdkActive
          /\ sdkRuns' = sdkRuns
          /\ UNCHANGED vars
     /\ messages' # messages => NoTwoCallEnds']_vars

\* end() was called while listening; a second end() finds the session READY
\* with the call-end message last
C15_Witness ==
  /\ pc = "done"
  /\ ~isListening
  /\ messages # <<>>
  /\ IsCallEnded(Last(messages))
  /\ Len(messages) < MaxLog

\* ---- C16 ----

\* C16: an SDK error event moves the session to ERROR and appends one system
\* message showing the classified error, whatever the state it arrives in.
C16_SdkErrorEvent ==
  [][(pc = "done" /\ sdkErrorEvent) =>
       /\ SessionState' = "ERROR"
       /\ Len(messages') = Len(messages) + 1
       /\ IsErrorMessage(Last(messages'))
       /\ lastErrorKind' # "none"]_vars

\* ---- C17 ----

\* C17: every SDK failure during initialisation, startVoiceCall() or
\* endVoiceCall() (vapiSDK.stop() throwing) appends a system message showing
\* the error, which is then the error the widget reports.
C17_NoSwallowedFailure ==
  [][(InitFails \/ (pc = "done" /\ startThrows)
        \/ (pc = "done" /\ isListening /\ sdkActive /\ endStopThrows)) =>
       /\ Len(messages') = Len(messages) + 1
       /\ IsErrorMessage(Last(messages'))
       /\ lastErrorKind' # "none"]_vars

\* ---- C18 ----

\* an operation of the session controller
ControllerStep == init \/ initResume \/ startVoiceCall \/ endVoiceCall \/ sdkErrorEvent

\* C18: every controller operation, succeeding or failing, appends at most
\* one message to the list, and that message is a system message: a controller
\* step that changes the list extends it by one system message.
C18_AtMostOneSystemMessage ==
  [][(messages' # messages /\ ControllerStep) =>
       /\ Len(messages') = Len(messages) + 1
       /\ SubSeq(messages', 1, Len(messages)) = messages
       /\ Last(messages').type = "system"]_vars

\* a failed start, a successful start and an end each left one message
C18_Witness ==
  /\ Len(messages) = 3
  /\ IsErrorMessage(messages[1])
  /\ messages[2].type = "system" /\ messages[2].text = CallStarted
  /\ IsCallEnded(messages[3])
  /\ sdkRuns = 2

\* ---- C19 ----

\* C19: a rejected startVoiceCall() leaves the session state as it was, and
\* the session enters ERROR only by a failed initialisation.
C19_LocalFailure ==
  [][/\ (pc = "done" /\ vapiReady /\ vapiClient # NULL /\ startThrows) =>
          SessionState' = SessionState
     /\ (SessionState # "ERROR" /\ SessionState' = "ERROR") => InitFails]_vars

\* ---- C20 ----

\* sendMessage() has just sent a request
RequestSent == Len(calls') = Len(calls) + 1

\* the step appends a message of the assistant
ReplyAppended ==
  /\ Len(chatMessages') = Len(chatMessages) + 1
  /\ Last(chatMessages').type = "ai"

\* C20: when sendMessage() sends its request the user message with the
\* utterance has been appended and the typing indicator is shown, no reply is
\* appended by that step, and a reply is appended only by the step in which
\* fetch() or response.json() of its call settles.
C20_HandleOrder ==
  [][/\ RequestSent =>
          /\ Len(chatMessages') = Len(chatMessages) + 1
          /\ Last(chatMessages').type = "user"
          /\ Last(chatMessages').content = trim(chatInput)
          /\ Last(calls').message = Last(chatMessages').content
          /\ Last(calls').at = "fetch"
          /\ isLoading'
          /\ loadMessages(localStorage') = chatMessages'
     /\ ReplyAppended =>
          \E i \in DOMAIN calls :
            /\ calls[i].at \in {"fetch", "json"}
            /\ calls'[i].at = "done"
            /\ Last(chatOwner') = i
            /\ \A j \in DOMAIN calls : j # i => calls'[j] = calls[j]]_vars

\* the request of a send is in flight: its user message is the last one, the
\* typing indicator is shown and no reply of the call is in the list
C20_Witness ==
  /\ calls # <<>>
  /\ Last(calls).at = "json"
  /\ isLoading
  /\ chatMessages # <<>>
  /\ Last(chatMessages).type = "user"
  /\ Last(chatMessages).content = Last(calls).message
  /\ \A i \in DOMAIN chatMessages :
       chatOwner[i] = Len(calls) => chatMessages[i].type = "user"

\* ---- C21 ----

\* a word of the text
HasWord(text, w) == \E k \in DOMAIN text : text[k] = w

\* the collaborator answered with a list of at least one flight
HasFlights(data) == data.kind = "object" /\ Len(data.outbound_flights) > 0

\* C21: when the only sendMessage() of a flight utterance completes with a
\* non-empty flight list, the list ends with the user message followed by an
\* assistant message that names the airline and the price of the first flight
\* returned, and the typing indicator is gone.
C21_FlightReply ==
  [][\A i \in DOMAIN calls, data \in Bodies :
       (/\ Len(calls) = 1
        /\ includes(toLowerCase(calls[i].message), "flight")
        /\ HasFlights(data)
        /\ chatMessages # <<>> /\ Last(chatOwner) = i
        /\ jsonAnswered(i, data)) =>
         /\ Len(chatMessages') = Len(chatMessages) + 1
         /\ SubSeq(chatMessages', 1, Len(chatMessages)) = chatMessages
         /\ Last(chatMessages).type = "user"
         /\ Last(chatMessages).content = calls[i].message
         /\ Last(chatMessages').type = "ai"
         /\ HasWord(Last(chatMessages').content, data.outbound_flights[1].airline)
         /\ HasWord(Last(chatMessages').content, data.outbound_flights[1].price)
         /\ ~isLoading'
         /\ \A k \in DOMAIN chatMessages' : ~IsEphemeral(chatMessages'[k])
         /\ loadMessages(localStorage') = chatMessages']_vars

\* the scenario of the spec: one flight at 18000, asked for once
C21_Witness ==
  /\ Len(calls) = 1 /\ calls[1].at = "done"
  /\ Len(chatMessages) = 2
  /\ chatMessages[1].type = "user"
  /\ chatMessages[1].content = <<"Flight", "to", "Dubai">>
  /\ chatMessages[2].type = "ai"
  /\ chatMessages[2].content = FlightText(<<Flight1>>)
  /\ HasWord(chatMessages[2].content, "18000")
  /\ HasWord(chatMessages[2].content, "Emirates")
  /\ ~isLoading

\* ---- C22 ----

\* the first rule of generateAIResponse applies to the utterance
FlightRule(userMessage) ==
  includes(toLowerCase(userMessage), "flight") \/ includes(toLowerCase(userMessage), "book")

\* the step ends call i by adding the apology and nothing else
Apologised(i) ==
  /\ Len(chatMessages') = Len(chatMessages) + 1
  /\ SubSeq(chatMessages', 1, Len(chatMessages)) = chatMessages
  /\ Last(chatMessages').type = "ai"
  /\ Last(chatMessages').content = ApologyText
  /\ ~isLoading'
  /\ calls'[i].at = "done"
  /\ loadMessages(localStorage') = chatMessages'

C23_EventuallyCompletes ==
  \A i \in 1..MaxSends :
    [](i \in DOMAIN calls =>
        <>(i \in DOMAIN calls /\ calls[i].at = "done" /\ ~isLoading))

\* ---- C24 ----

\* C24: when endVoiceCall() ran while the only text send was waiting for its
\* completion, the completion removes the typing indicator and appends the
\* reply after the call-end message, leaving no typing indicator in the list.
C24_EndDuringSend ==
  [][(/\ pc = "done"
      /\ Len(timers) = 1 /\ nextCall = 1
      /\ messages # <<>> /\ IsCallEnded(Last(messages))
      /\ \E k \in DOMAIN messages : IsTyping(messages[k]) /\ owner[k] = Head(timers)
      /\ timerFires) =>
       /\ Last(messages').type = "ai" /\ Last(messages').text = AiReply
       /\ \E k \in DOMAIN messages' :
            IsCallEnded(messages'[k]) /\ k < Len(messages')
       /\ \A k \in DOMAIN messages' : ~IsTyping(messages'[k])]_vars

\* ---- C29 ----

NonTyping(log) == SelectSeq(log, LAMBDA m : ~IsTyping(m))
TypingCount(log) == Len(log) - Len(NonTyping(log))

\* C29: the removal done by the completion of a text send takes one typing
\* indicator out of the list whenever the list holds one, wherever it sits,
\* takes nothing out when there is none, and leaves every other message as it
\* was.
C29_RemoveEphemeral ==
  [][(pc = "done" /\ timers # <<>> /\ timerFires) =>
       /\ TypingCount(messages')
            = IF TypingCount(messages) > 0 THEN TypingCount(messages) - 1 ELSE 0
       /\ SubSeq(NonTyping(messages'), 1, Len(NonTyping(messages)))
            = NonTyping(messages)]_vars

\* ---- C25, C26, C27 ----

\* the intent a reply of generateAIResponse stands for
replyIntent(text) ==
  IF text = GreetingText THEN "Greeting"
  ELSE IF text = HotelText THEN "HotelSearch"
  ELSE IF text = BookingText THEN "BookingHelp"
  ELSE IF text = FallbackText THEN "Fallback"
  ELSE "FlightSearch"

\* the words of the utterances that hold a keyword, whatever their case
WordsWith(kw) ==
  CASE kw = "flight"  -> {"Flight", "flights"}
    [] kw = "book"    -> {"booking"}
    [] kw = "hello"   -> {"HELLO"}
    [] kw = "hi"      -> {"this"}
    [] kw = "hotel"   -> {"Hotel"}
    [] kw = "booking" -> {"booking"}
    [] kw = "reserve" -> {"reserve"}

Mentions(utterance, kws) ==
  \E k \in DOMAIN utterance, kw \in kws : utterance[k] \in WordsWith(kw)

\* the ordered rule table of the IntentRouter
RuleTable ==
  <<[keywords |-> {"flight", "book"},     intent |-> "FlightSearch"],
    [keywords |-> {"hello", "hi"},        intent |-> "Greeting"],
    [keywords |-> {"hotel"},              intent |-> "HotelSearch"],
    [keywords |-> {"booking", "reserve"}, intent |-> "BookingHelp"]>>

\* the first rule at or after position from that matches wins
RECURSIVE firstMatch(_, _)
firstMatch(utterance, from) ==
  IF from > Len(RuleTable) THEN "Fallback"
  ELSE IF Mentions(utterance, RuleTable[from].keywords) THEN RuleTable[from].intent
  ELSE firstMatch(utterance, from + 1)

classify(utterance) == firstMatch(utterance, 1)

\* C25 (as stated): for every utterance the reply generateAIResponse gives is
\* the one of the intent the ordered rule table gives, first match winning.
C25_RuleTable ==
  \A k \in DOMAIN generated :
    ~generated[k].threw =>
      replyIntent(generated[k].text) = classify(generated[k].userMessage)

\* C25 (amended): the reply is the one of the first matching rule of the
\* table, where the flight/book rule counts only if the collaborator returned
\* a non-empty flight list; on a null body that rule throws instead.
C25_RuleTableGivenFlights ==
  \A k \in DOMAIN generated :
    LET g == generated[k]
        first == IF HasFlights(g.data) THEN 1 ELSE 2
    IN  /\ g.threw <=> (g.data.kind = "null" /\ Mentions(g.userMessage, {"flight", "book"}))
        /\ ~g.threw => replyIntent(g.text) = firstMatch(g.userMessage, first)

\* an utterance matching the greeting and the hotel rule got the greeting
C25_Witness ==
  /\ generated # <<>>
  /\ generated[1].userMessage = <<"Hotel", "HELLO">>
  /\ replyIntent(generated[1].text) = "Greeting"

C27_Examples ==
  \A k \in DOMAIN generated :
    LET g == generated[k]
        intent == replyIntent(g.text)
    IN  ~g.threw =>
          /\ Mentions(g.userMessage, {"flight"}) => intent = "FlightSearch"
          /\ (Mentions(g.userMessage, {"hello"})
                /\ ~Mentions(g.userMessage, {"flight", "book"})) => intent = "Greeting"
          /\ (Mentions(g.userMessage, {"hotel"})
                /\ ~Mentions(g.userMessage, {"flight", "book", "hello", "hi"}))
               => intent = "HotelSearch"
          /\ ~Mentions(g.userMessage, {"flight", "book", "hello", "hi", "hotel",
                                        "booking", "reserve"}) => intent = "Fallback"

\* C27 (amended): as stated, except that an utterance with "flight" is
\* FlightSearch only when the collaborator returned a non-empty flight list.
C27_ExamplesGivenFlights ==
  \A k \in DOMAIN generated :
    LET g == generated[k]
        intent == replyIntent(g.text)
    IN  ~g.threw =>
          /\ (Mentions(g.userMessage, {"flight"}) /\ HasFlights(g.data))
               => intent = "FlightSearch"
          /\ (Mentions(g.userMessage, {"hello"})
                /\ ~Mentions(g.userMessage, {"flight", "book"})) => intent = "Greeting"
          /\ (Mentions(g.userMessage, {"hotel"})
                /\ ~Mentions(g.userMessage, {"flight", "book", "hello", "hi"}))
               => intent = "HotelSearch"
          /\ ~Mentions(g.userMessage, {"flight", "book", "hello", "hi", "hotel",
                                        "booking", "reserve"}) => intent = "Fallback"

\* a capitalised flight utterance was answered with the flight reply
C27_Witness ==
  /\ generated # <<>>
  /\ generated[1].userMessage = <<"Flight", "asdf">>
  /\ HasFlights(generated[1].data)
  /\ replyIntent(generated[1].text) = "FlightSearch"
  /\ HasWord(generated[1].text, generated[1].data.outbound_flights[1].price)

\* ---- C28 ----

\* the words of failure texts that hold a keyword, in any case
WordsHolding(kw) ==
  CASE kw = "permission" -> {"permission", "Permission"}
    [] kw = "secure"     -> {"secure", "insecure"}
    [] kw = "https"      -> {"https", "HTTPS"}
    [] kw = "assistant"  -> {"assistant", "assistants"}

Holds(msg, kws) == \E k \in DOMAIN msg, kw \in kws : msg[k] \in WordsHolding(kw)

\* the words an exact, case-sensitive search for the word finds
HasExactly(msg, words) == \E k \in DOMAIN msg : msg[k] \in words

\* C28 (as stated): a text containing "permission" is PermissionDenied;
\* otherwise one containing "secure" or "https" is InsecureTransport; otherwise
\* one containing "assistant" is AssistantMisconfigured; otherwise Unknown; the
\* same text always gets the same kind.
C28_OrderedRules ==
  /\ \A k \in DOMAIN classified :
       shownKind(classified[k].text)
         = IF Holds(classified[k].message, {"permission"}) THEN "PermissionDenied"
           ELSE IF Holds(classified[k].message, {"secure", "https"}) THEN "InsecureTransport"
           ELSE IF Holds(classified[k].message, {"assistant"}) THEN "AssistantMisconfigured"
           ELSE "Unknown"
  /\ \A j \in DOMAIN classified, k \in DOMAIN classified :
       classified[j].message = classified[k].message
         => classified[j].text = classified[k].text

\* C28 (amended): the search is case-sensitive. A text containing "permission"
\* or "Permission" is PermissionDenied; otherwise one containing "secure" or
\* "HTTPS" is InsecureTransport (lower-case "https" is not searched for);
\* otherwise one containing "assistant" is AssistantMisconfigured; otherwise,
\* and for an error without a message, Unknown; the same text always gets the
\* same kind.
C28_OrderedRulesCaseSensitive ==
  /\ \A k \in DOMAIN classified :
       shownKind(classified[k].text)
         = IF HasExactly(classified[k].message, {"permission", "Permission"})
           THEN "PermissionDenied"
           ELSE IF HasExactly(classified[k].message, {"secure", "insecure", "HTTPS"})
           THEN "InsecureTransport"
           ELSE IF HasExactly(classified[k].message, {"assistant", "assistants"})
           THEN "AssistantMisconfigured"
           ELSE "Unknown"
  /\ \A j \in DOMAIN classified, k \in DOMAIN classified :
       classified[j].message = classified[k].message
         => classified[j].text = classified[k].text

\* a text matching the first and the last rule got the kind of the first
C28_Witness ==
  /\ Len(classified) = 2
  /\ classified[1].message = <<"assistants", "permission">>
  /\ shownKind(classified[2].text) = "PermissionDenied"

\* ---- C30 ----

\* C30: right after a confirmed clearChat() the list in memory is empty and
\* what loadMessages() reads back from localStorage is the empty list.
C30_ClearPersists ==
  [][clearChatAnswered(TRUE) =>
       /\ chatMessages' = <<>>
       /\ localStorage' = stringify(<<>>)
       /\ loadMessages(localStorage') = <<>>]_vars

\* a list that held the message of a send has been cleared
C30_Witness ==
  /\ calls # <<>>
  /\ chatMessages = <<>>
  /\ localStorage = stringify(<<>>)
  /\ loadMessages(localStorage) = <<>>

\* ---- C31 ----

\* the replies in the log that belong to text send n
RepliesOf(log, own, n) ==
  {k \in DOMAIN log : log[k].type = "ai" /\ log[k].text = AiReply /\ own[k] = n}

\* C31: the delayed completion of a text send never fails: whatever ran since
\* the send (clearMessages included), the step of the completion appends the
\* assistant reply of that send at the end of the log, and the log then holds
\* exactly one reply of that send.
C31_CompletionAppendsReply ==
  [][(/\ pc = "done"
      /\ timers # <<>>
      /\ timerFires) =>
       /\ messages' # <<>>
       /\ Last(messages').type = "ai" /\ Last(messages').text = AiReply
       /\ Cardinality(RepliesOf(messages', owner', Head(timers))) = 1]_vars

\* ---- C32 ----

\* log a is an initial part of log b
IsPrefix(a, b) == Len(a) <= Len(b) /\ SubSeq(b, 1, Len(a)) = a

\* C32: every step other than clearMessages keeps the messages that are not
\* typing indicators, in their order and unchanged, as an initial part of the
\* new list; and the only message a step takes out of the list is a typing
\* indicator at its end, never a user, system or reply message, a user message
\* reading "..." included.
C32_AppendOnly ==
  [][(messages' # messages /\ ~clearMessages) =>
       /\ IsPrefix(NonTyping(messages), NonTyping(messages'))
       /\ \/ IsPrefix(messages, messages')
          \/ /\ messages # <<>>
             /\ IsTyping(Last(messages))
             /\ IsPrefix(Front(messages), messages')]_vars

\* a user message reading "..." is in the list, its send has completed with
\* the typing indicator after it removed and the reply put in its place
C32_Witness ==
  \E k \in DOMAIN messages :
    /\ messages[k].type = "user" /\ messages[k].text = TypingIndicator
    /\ k < Len(messages)
    /\ messages[k + 1].type = "ai" /\ messages[k + 1].text = AiReply
    /\ owner[k + 1] = owner[k]

\* ---- C33 ----

\* the sendMessage invocations that are waiting at an await
Pending == {i \in DOMAIN calls : calls[i].at # "done"}

\* C33: isLoading is true exactly while at least one sendMessage invocation is
\* waiting for fetch() or response.json(): the completion of one invocation
\* does not clear it while another is still waiting, and it is false when none
\* is.
C33_LoadingWhilePending == isLoading <=> Pending # {}

\* ---- C34 ----

\* the list under 'chatMessages' is the list in memory, or nothing is stored
\* and the list in memory is empty
StoredIsMemory ==
  IF localStorage = <<>>
  THEN chatMessages = <<>>
  ELSE parse(localStorage) = chatMessages

\* C34: after construction and after every step of ChatInterface (each
\* addMessage, each confirmed clearChat) the list stored under 'chatMessages'
\* equals the list in memory, or the key is absent and the list is empty; and
\* a declined clearChat() changes neither the list nor the stored item.
C34_StoredIsMemory ==
  /\ []StoredIsMemory
  /\ [][clearChatAnswered(FALSE) => UNCHANGED <<chatMessages, localStorage>>]_vars

\* a send whose text holds a quote and a backslash has completed: its message
\* and the answer are in the list and in the stored item
C34_Witness ==
  /\ \E i \in DOMAIN calls : calls[i].at = "done"
  /\ \E k \in DOMAIN chatMessages :
       /\ chatMessages[k].type = "user"
       /\ \E j \in DOMAIN chatMessages[k].content :
            chatMessages[k].content[j] = Quote
       /\ k < Len(chatMessages)
       /\ chatMessages[k + 1].type = "ai"
  /\ localStorage # <<>>
  /\ parse(localStorage) = chatMessages
====
